---- MODULE Spec2Model ----
(***************************************************************************)
(* The task persistence and lifecycle engine of todozi                     *)
(* (src/tdz_py/todozi/storage.py): the legacy three-collection store, the   *)
(* per-project container store with its four lifecycle buckets, the         *)
(* migration between the two, and whole-tree backup and restore.            *)
(*                                                                         *)
(* A task is the record [id, parent_project, status, progress].  The JSON   *)
(* file of a collection or container is modelled by the maps it holds; a    *)
(* Python dict is a TLA+ function whose DOMAIN is the set of its keys.      *)
(* An Optional[int] is the empty set (None) or a singleton {n}.             *)
(***************************************************************************)
EXTENDS Integers, Sequences, FiniteSets, TLC

\* ---------------------------------------------------------------- bounds
MaxTasks == 2
MaxSteps == 3
MaxBackups == 2
MaxPathLen == 4

\* ------------------------------------------------------------- constants
Ids == 1..MaxTasks

\* Config.default_project
default_project == "general"

\* what a caller may put in task.parent_project ("" is unset)
ParentInputs == {"", "work"}

\* the status strings the lifecycle knows
ActiveStatuses == {"todo", "pending", "in_progress", "blocked", "review"}
CompletedStatuses == {"done", "completed"}
ArchivedStatuses == {"cancelled", "deferred"}
Statuses == ActiveStatuses \cup CompletedStatuses \cup ArchivedStatuses

\* the statuses and the progress values tasks are created with
InputStatuses == {"todo", "completed", "deferred"}
InputProgress == {{}, {40}}

CollectionNames == <<"active", "completed", "archived">>
BucketNames == <<"active_tasks", "completed_tasks", "archived_tasks", "deleted_tasks">>

\* -------------------------------------------------------------- dict ops
EmptyMap == [x \in {} |-> x]
Has(d, k) == k \in DOMAIN d
Put(d, k, v) == [x \in (DOMAIN d) \cup {k} |-> IF x = k THEN v ELSE d[x]]
Pop(d, k) == [x \in (DOMAIN d) \ {k} |-> d[x]]
Range(s) == {s[n] : n \in DOMAIN s}

\* ------------------------------------------------------------ the models
Task(i, p, s, g) == [id |-> i, parent_project |-> p, status |-> s, progress |-> g]

InputTasks == {Task(i, p, s, g) : i \in Ids, p \in ParentInputs, s \in InputStatuses, g \in InputProgress}

\* the tasks the legacy store is fed (Task.new leaves progress unset)
LegacyInputTasks == {Task(i, p, s, {}) : i \in Ids, p \in ParentInputs, s \in InputStatuses}

hash_project_name(project_name) == <<"md5", project_name>>

ProjectTaskContainer_new(project_name) ==
  [project_name |-> project_name,
   project_hash |-> hash_project_name(project_name),
   active_tasks |-> EmptyMap,
   completed_tasks |-> EmptyMap,
   archived_tasks |-> EmptyMap,
   deleted_tasks |-> EmptyMap]

TaskCollection_new == EmptyMap

\* QueueCollection.new: no item and no session (the clock fields are left out)
QueueCollection_new == [items |-> EmptyMap, sessions |-> EmptyMap]

\* QueueItem.new: the status is backlog
QueueItem_new(id) == [id |-> id, status |-> "backlog"]

\* QueueSession.new: end_time is None
QueueSession_new(id, queue_item_id) ==
  [id |-> id, queue_item_id |-> queue_item_id, end_time |-> {}]

VARIABLES
  collections,   \* tasks/<name>.json: collection name -> (task id -> task)
  containers,    \* project_tasks/<hash>.json: project hash -> container
  backups,       \* the backups/ subtree: path -> directory or file
  last,          \* the call that was made last and what it returned
  steps,         \* number of calls made so far
  procs,         \* concurrent callers: where each is inside its call
  unreadable,    \* the entity files whose bytes on disk do not parse as JSON
  config,        \* tdz.hlx as it is on disk, and the Config a caller holds
  queue          \* queue/queue.json as it is on disk, and the QueueCollection
                 \* a caller holds

vars == <<collections, containers, backups, last, steps, procs, unreadable, config, queue>>

\* the local processes that share the storage tree (a CLI run and a TUI)
Procs == {"cli", "tui"}
Idle == [pc |-> "idle", task |-> {}, container |-> {}, res |-> ""]

Call(op, id, res) ==
  [op |-> op, id |-> id, res |-> res, ret |-> {}, container |-> {},
   tasks_found |-> 0, tasks_migrated |-> 0, projects_migrated |-> 0,
   consecutive_runs |-> 0, name |-> "", task_count |-> 0, updates |-> {},
   errors |-> <<>>]

\* ------------------------------------------------------ the entity files
load_project_task_container(files, project_name) ==
  IF Has(files, hash_project_name(project_name))
  THEN files[hash_project_name(project_name)]
  ELSE ProjectTaskContainer_new(project_name)

save_project_task_container(files, container) ==
  Put(files, container.project_hash, container)

\* a file that does not parse is skipped (the try/except of lines 510-520)
list_project_task_containers(files, bad) == {files[h] : h \in (DOMAIN files) \ bad}

load_task_collection(files, collection_name) == files[collection_name]

save_task_collection(files, collection_name, collection) ==
  [files EXCEPT ![collection_name] = collection]

\* ------------------------------------------------- project container store
\* insert_by_status without its last branch: cancelled and deferred tasks are
\* stored nowhere
insert_by_status_no_archive(container, task) ==
  IF task.status \in ActiveStatuses
  THEN [container EXCEPT !.active_tasks = Put(@, task.id, task)]
  ELSE IF task.status \in CompletedStatuses
  THEN [container EXCEPT !.completed_tasks = Put(@, task.id, task)]
  ELSE container

\* the status -> bucket chain of add_task_to_project and of the migration
insert_by_status(container, task) ==
  IF task.status \in ActiveStatuses
  THEN [container EXCEPT !.active_tasks = Put(@, task.id, task)]
  ELSE IF task.status \in CompletedStatuses
  THEN [container EXCEPT !.completed_tasks = Put(@, task.id, task)]
  ELSE IF task.status \in ArchivedStatuses
  THEN [container EXCEPT !.archived_tasks = Put(@, task.id, task)]
  ELSE container

\* held_in_container without the deleted bucket
held_in_live_buckets(container, id) ==
  \/ Has(container.active_tasks, id)
  \/ Has(container.completed_tasks, id)
  \/ Has(container.archived_tasks, id)

\* the four-bucket membership test (lines 746-753, 774-785, 924-925)
held_in_container(container, id) ==
  \/ Has(container.active_tasks, id)
  \/ Has(container.completed_tasks, id)
  \/ Has(container.archived_tasks, id)
  \/ Has(container.deleted_tasks, id)

\* the if/elif lookup of get_task_from_any_project in one container
lookup_in_container(container, id) ==
  IF Has(container.active_tasks, id) THEN {container.active_tasks[id]}
  ELSE IF Has(container.completed_tasks, id) THEN {container.completed_tasks[id]}
  ELSE IF Has(container.archived_tasks, id) THEN {container.archived_tasks[id]}
  ELSE IF Has(container.deleted_tasks, id) THEN {container.deleted_tasks[id]}
  ELSE {}

\* the buckets delete_task_from_project pops from
found_for_delete(container, id) ==
  \/ Has(container.active_tasks, id)
  \/ Has(container.completed_tasks, id)
  \/ Has(container.archived_tasks, id)

\* delete_in_container that writes a new container holding the deleted task only
delete_in_container_alone(container, id) ==
  LET held == IF Has(container.active_tasks, id) THEN container.active_tasks[id]
              ELSE IF Has(container.completed_tasks, id) THEN container.completed_tasks[id]
              ELSE container.archived_tasks[id]
  IN [ProjectTaskContainer_new(container.project_name) EXCEPT
        !.deleted_tasks = Put(@, id, [held EXCEPT !.status = "cancelled"])]

delete_in_container(container, id) ==
  LET popped ==
        IF Has(container.active_tasks, id)
        THEN <<container.active_tasks[id], [container EXCEPT !.active_tasks = Pop(@, id)]>>
        ELSE IF Has(container.completed_tasks, id)
        THEN <<container.completed_tasks[id], [container EXCEPT !.completed_tasks = Pop(@, id)]>>
        ELSE <<container.archived_tasks[id], [container EXCEPT !.archived_tasks = Pop(@, id)]>>
      task == [popped[1] EXCEPT !.status = "cancelled"]
  IN [popped[2] EXCEPT !.deleted_tasks = Put(@, id, task)]

\* the buckets complete_task_in_project pops from
found_for_complete(container, id) ==
  \/ Has(container.active_tasks, id)
  \/ Has(container.archived_tasks, id)

\* complete_in_container that inserts without popping
complete_in_container_keeping(container, id) ==
  LET held == IF Has(container.active_tasks, id)
              THEN container.active_tasks[id]
              ELSE container.archived_tasks[id]
  IN [container EXCEPT !.completed_tasks = Put(@, id, [held EXCEPT !.status = "done"])]

complete_in_container(container, id) ==
  LET popped ==
        IF Has(container.active_tasks, id)
        THEN <<container.active_tasks[id], [container EXCEPT !.active_tasks = Pop(@, id)]>>
        ELSE <<container.archived_tasks[id], [container EXCEPT !.archived_tasks = Pop(@, id)]>>
      task == [popped[1] EXCEPT !.status = "done"]
  IN [popped[2] EXCEPT !.completed_tasks = Put(@, id, task)]

\* --------------------------------------------------------------- tdz.hlx
\* A datetime is [secs, micro, aware]; the text of one is [secs, frac, zone],
\* frac being the decimal digits after the point.
digit(frac, i) == IF i <= Len(frac) THEN frac[i] ELSE 0

\* datetime.isoformat: the fraction is written, with six digits, only when
\* the microseconds are not zero; an aware datetime gets its offset
isoformat(dt) ==
  [secs |-> dt.secs,
   frac |-> IF dt.micro = 0
            THEN <<>>
            ELSE [i \in 1..6 |-> (dt.micro \div (10 ^ (6 - i))) % 10],
   zone |-> IF dt.aware THEN "+00:00" ELSE ""]

\* datetime.fromisoformat(s.replace('Z', '+00:00')): digits after the sixth
\* are dropped
fromisoformat(text) ==
  [secs |-> text.secs,
   micro |-> digit(text.frac, 1) * 100000 + digit(text.frac, 2) * 10000
             + digit(text.frac, 3) * 1000 + digit(text.frac, 4) * 100
             + digit(text.frac, 5) * 10 + digit(text.frac, 6),
   aware |-> text.zone # ""]

\* Config(): no registration, no default assignee
Config == [registration |-> {}, default_assignee |-> {}]

\* save_config: a key that is absent from config_data is an empty set here
save_config(c) ==
  [registration |->
     {[registered_at |-> isoformat(r.registered_at)] : r \in c.registration},
   default_assignee |-> {a \in c.default_assignee : a # ""}]

\* load_config; Assignee.from_string returns its argument
load_config(config_data) ==
  [registration |->
     {[registered_at |-> fromisoformat(r.registered_at)] :
        r \in config_data.registration},
   default_assignee |-> config_data.default_assignee]

\* ------------------------------------------------------------------ Init
Init ==
  /\ collections = [n \in Range(CollectionNames) |-> TaskCollection_new]
  /\ containers = EmptyMap
  /\ backups = EmptyMap
  /\ last = Call("init", 0, "ok")
  /\ steps = 0
  /\ procs = [p \in Procs |-> Idle]
  /\ unreadable = {}
  /\ config = [file |-> save_config(Config), held |-> {}]
  /\ queue = [file |-> {}, held |-> QueueCollection_new]

\* one whole call of a single caller
Step == steps < MaxSteps /\ steps' = steps + 1 /\ UNCHANGED <<procs, unreadable, config, queue>>

\* Storage.add_task_to_project
AddTaskToProject(t) ==
  LET task == IF t.parent_project = ""
              THEN [t EXCEPT !.parent_project = default_project]
              ELSE t
      container == load_project_task_container(containers, task.parent_project)
  IN /\ Step
     /\ IF hash_project_name(task.parent_project) \in unreadable
        THEN \* json.load raises (line 475)
             /\ last' = Call("addTaskToProject", task.id, "Corrupt")
             /\ UNCHANGED containers
        ELSE /\ containers' = save_project_task_container(containers, insert_by_status(container, task))
             /\ last' = [Call("addTaskToProject", task.id, "ok") EXCEPT
                           !.container = {container.project_hash}]
     /\ UNCHANGED <<collections, backups>>

\* Storage.get_task_from_any_project
GetTaskAnywhere(id) ==
  LET hits == {c \in list_project_task_containers(containers, unreadable) : held_in_container(c, id)}
  IN /\ Step
     /\ \/ /\ hits = {}
           /\ last' = Call("getTaskAnywhere", id, "NotFound")
        \/ \E c \in hits :
             last' = [Call("getTaskAnywhere", id, "ok") EXCEPT
                        !.container = {c.project_hash}, !.ret = lookup_in_container(c, id)]
     /\ UNCHANGED <<collections, containers, backups>>

\* Storage.update_task_in_project: the updates are not applied ("simplified");
\* the container that holds the id is written back as it was read
UpdateTask(id) ==
  LET hits == {c \in list_project_task_containers(containers, unreadable) : held_in_container(c, id)}
  IN /\ Step
     /\ \/ /\ hits = {}
           /\ last' = Call("updateTask", id, "NotFound")
           /\ UNCHANGED containers
        \/ \E c \in hits :
             /\ containers' = save_project_task_container(containers, c)
             /\ last' = [Call("updateTask", id, "ok") EXCEPT !.container = {c.project_hash}]
     /\ UNCHANGED <<collections, backups>>

\* Storage.delete_task_from_project
DeleteTask(id) ==
  LET hits == {c \in list_project_task_containers(containers, unreadable) : found_for_delete(c, id)}
  IN /\ Step
     /\ \/ /\ hits = {}
           /\ last' = Call("deleteTask", id, "NotFound")
           /\ UNCHANGED containers
        \/ \E c \in hits :
             /\ containers' = save_project_task_container(containers, delete_in_container(c, id))
             /\ last' = [Call("deleteTask", id, "ok") EXCEPT !.container = {c.project_hash}]
     /\ UNCHANGED <<collections, backups>>

\* Storage.complete_task_in_project (Storage.complete_task delegates to it)
CompleteTask(id) ==
  LET hits == {c \in list_project_task_containers(containers, unreadable) : found_for_complete(c, id)}
  IN /\ Step
     /\ \/ /\ hits = {}
           /\ last' = Call("completeTask", id, "NotFound")
           /\ UNCHANGED containers
        \/ \E c \in hits :
             /\ containers' = save_project_task_container(containers, complete_in_container(c, id))
             /\ last' = [Call("completeTask", id, "ok") EXCEPT !.container = {c.project_hash}]
     /\ UNCHANGED <<collections, backups>>

\* ----------------------------------------------------- legacy flat store
\* Storage.add_task
LegacyAdd(t) ==
  LET collection == load_task_collection(collections, "active")
  IN /\ Step
     /\ IF <<"tasks", "active">> \in unreadable
        THEN \* json.load raises (line 552)
             /\ last' = Call("add", t.id, "Corrupt")
             /\ UNCHANGED collections
        ELSE /\ collections' = save_task_collection(collections, "active", Put(collection, t.id, t))
             /\ last' = Call("add", t.id, "ok")
     /\ UNCHANGED <<containers, backups>>

\* Storage.move_task: the source collection is written before the target is read
move_task(files, id, from_collection, to_collection) ==
  LET from_col == load_task_collection(files, from_collection)
      task == from_col[id]
      files1 == save_task_collection(files, from_collection, Pop(from_col, id))
      to_col == load_task_collection(files1, to_collection)
  IN save_task_collection(files1, to_collection, Put(to_col, id, task))

\* move_task looking for the id in every collection, not in the source only
LegacyMove_from_any(id, from_collection, to_collection) ==
  LET holding == {n \in Range(CollectionNames) : Has(load_task_collection(collections, n), id)}
  IN /\ Step
     /\ IF holding # {}
        THEN /\ \E n \in holding :
                  collections' = move_task(collections, id, n, to_collection)
             /\ last' = Call("move", id, "ok")
        ELSE /\ last' = Call("move", id, "NotFound")
             /\ UNCHANGED collections
     /\ UNCHANGED <<containers, backups>>

LegacyMove(id, from_collection, to_collection) ==
  /\ Step
  /\ IF Has(load_task_collection(collections, from_collection), id)
     THEN /\ collections' = move_task(collections, id, from_collection, to_collection)
          /\ last' = Call("move", id, "ok")
     ELSE /\ last' = Call("move", id, "NotFound")
          /\ UNCHANGED collections
  /\ UNCHANGED <<containers, backups>>

\* ------------------------------------------------------ migration engine
\* dict.values() as a sequence; the model lists the keys in ascending order
RECURSIVE values(_)
values(d) ==
  IF DOMAIN d = {} THEN <<>>
  ELSE LET k == CHOOSE k \in DOMAIN d : \A j \in DOMAIN d : k <= j
       IN <<d[k]>> \o values(Pop(d, k))

\* lines 903-909: the tasks of one collection; a collection that cannot be
\* loaded contributes nothing and nothing is recorded (except Exception: pass)
tasks_read(files, bad, collection_name) ==
  IF <<"tasks", collection_name>> \in bad THEN <<>>
  ELSE values(load_task_collection(files, collection_name))

\* all_legacy_tasks reading the active collection only
all_legacy_tasks_active_only(files, bad) ==
  tasks_read(files, bad, "active")

\* lines 902-909: every task of the three collections, in collection order
all_legacy_tasks(files, bad) ==
  tasks_read(files, bad, "active")
    \o tasks_read(files, bad, "completed")
    \o tasks_read(files, bad, "archived")

\* line 913
group_of(task) ==
  IF task.parent_project # "" THEN task.parent_project ELSE default_project

\* the keys of project_groups, in order of first appearance (lines 911-916)
RECURSIVE group_names(_, _)
group_names(tasks, seen) ==
  IF tasks = <<>> THEN <<>>
  ELSE IF group_of(Head(tasks)) \in seen THEN group_names(Tail(tasks), seen)
  ELSE <<group_of(Head(tasks))>> \o group_names(Tail(tasks), seen \cup {group_of(Head(tasks))})

\* migrate_group without the membership test: every task is inserted and counted
RECURSIVE migrate_group_unchecked(_, _, _)
migrate_group_unchecked(container, tasks, migrated) ==
  IF tasks = <<>> THEN [container |-> container, migrated |-> migrated]
  ELSE migrate_group_unchecked(insert_by_status(container, Head(tasks)), Tail(tasks), migrated + 1)

\* migrate_group testing the active bucket only
RECURSIVE migrate_group_active_only(_, _, _)
migrate_group_active_only(container, tasks, migrated) ==
  IF tasks = <<>> THEN [container |-> container, migrated |-> migrated]
  ELSE IF ~Has(container.active_tasks, Head(tasks).id)
  THEN migrate_group_active_only(insert_by_status(container, Head(tasks)), Tail(tasks), migrated + 1)
  ELSE migrate_group_active_only(container, Tail(tasks), migrated)

\* lines 923-932: the tasks of one group against the group's container
RECURSIVE migrate_group(_, _, _)
migrate_group(container, tasks, migrated) ==
  IF tasks = <<>> THEN [container |-> container, migrated |-> migrated]
  ELSE IF ~held_in_container(container, Head(tasks).id)
  THEN migrate_group(insert_by_status(container, Head(tasks)), Tail(tasks), migrated + 1)
  ELSE migrate_group(container, Tail(tasks), migrated)

\* lines 918-938: one container load and one save per group; the load of a
\* container file that does not parse raises and ends the run (line 919 is in
\* no try block), after the groups before it have been saved
RECURSIVE migrate_groups(_, _, _, _, _)
migrate_groups(files, bad, names, tasks, report) ==
  IF names = <<>> THEN [files |-> files, report |-> report]
  ELSE IF hash_project_name(Head(names)) \in bad
  THEN [files |-> files, report |-> [report EXCEPT !.res = "Corrupt"]]
  ELSE LET project_name == Head(names)
           group == SelectSeq(tasks, LAMBDA t : group_of(t) = project_name)
           done == migrate_group(load_project_task_container(files, project_name), group, 0)
       IN migrate_groups(save_project_task_container(files, done.container), bad,
                         Tail(names), tasks,
                         [report EXCEPT !.tasks_migrated = @ + done.migrated,
                                        !.projects_migrated = @ + 1])

\* Storage.migrate_to_project_based
migrate_to_project_based(legacy, files, bad) ==
  LET all_tasks == all_legacy_tasks(legacy, bad)
      report == [Call("runMigration", 0, "ok") EXCEPT !.tasks_found = Len(all_tasks)]
  IN migrate_groups(files, bad, group_names(all_tasks, {}), all_tasks, report)

\* a migration that empties the legacy collections it has read
RunMigration_draining ==
  LET run == migrate_to_project_based(collections, containers, unreadable)
  IN /\ Step
     /\ containers' = run.files
     /\ collections' = [n \in Range(CollectionNames) |-> TaskCollection_new]
     /\ last' = [run.report EXCEPT !.consecutive_runs = last.consecutive_runs + 1]
     /\ UNCHANGED backups

RunMigration ==
  LET run == migrate_to_project_based(collections, containers, unreadable)
  IN /\ Step
     /\ containers' = run.files
     /\ last' = [run.report EXCEPT !.consecutive_runs = last.consecutive_runs + 1]
     /\ UNCHANGED <<collections, backups>>

\* --------------------------------------------------------- specification
Next ==
  \/ \E t \in InputTasks : AddTaskToProject(t)
  \/ \E id \in Ids : GetTaskAnywhere(id)
  \/ \E id \in Ids : UpdateTask(id)
  \/ \E id \in Ids : DeleteTask(id)
  \/ \E id \in Ids : CompleteTask(id)
  \/ \E t \in LegacyInputTasks : LegacyAdd(t)
  \/ \E id \in Ids : \E f \in Range(CollectionNames) : \E t \in Range(CollectionNames) :
       LegacyMove(id, f, t)
  \/ RunMigration

Spec == Init /\ [][Next]_vars

\* -------------------------------------------------------- backup/restore
\* The storage tree as a map from paths (relative to the storage root) to
\* nodes.  tasks/ and project_tasks/ hold no directory of their own and are
\* copied as a whole, so each is one node that carries the files it holds.
Dir == [kind |-> "dir", data |-> {}]
File(content) == [kind |-> "file", data |-> {content}]

BackupNameList == <<"todozi_backup_1", "todozi_backup_2", "todozi_backup_3", "todozi_backup_4">>
BackupNames == {BackupNameList[n] : n \in 1..MaxBackups}
RootEntryNames == {"tasks", "project_tasks", "backups"}

\* The orders in which a directory listing may return its entries.  backups/
\* holds snapshot names only and every other directory holds root entry names
\* only, so an order of each of the two kinds of name fixes every listing.
RECURSIVE Orders(_)
Orders(names) ==
  IF names = {} THEN {<<>>}
  ELSE UNION {{<<n>> \o rest : rest \in Orders(names \ {n})} : n \in names}
ListingOrders == {a \o b : a \in Orders(RootEntryNames), b \in Orders(BackupNames)}

\* get_storage_dir() as the files under it
StorageTree(legacy, files, tree) ==
  [p \in (DOMAIN tree) \cup {<<>>, <<"tasks">>, <<"project_tasks">>} |->
     IF p = <<>> THEN Dir
     ELSE IF p = <<"tasks">> THEN File(legacy)
     ELSE IF p = <<"project_tasks">> THEN File(files)
     ELSE tree[p]]

TasksOf(fs) ==
  IF <<"tasks">> \in DOMAIN fs
  THEN CHOOSE legacy \in fs[<<"tasks">>].data : TRUE
  ELSE [n \in Range(CollectionNames) |-> TaskCollection_new]

ProjectTasksOf(fs) ==
  IF <<"project_tasks">> \in DOMAIN fs
  THEN CHOOSE files \in fs[<<"project_tasks">>].data : TRUE
  ELSE EmptyMap

BackupsOf(fs) ==
  [p \in {q \in DOMAIN fs : q # <<>> /\ q[1] = "backups"} |-> fs[p]]

is_dir(fs, path) == path \in DOMAIN fs /\ fs[path].kind = "dir"

\* src.iterdir(): the entries of a directory, in the listing order
iterdir(fs, path, order) ==
  LET names == {q[Len(q)] : q \in {q \in DOMAIN fs :
                   Len(q) = Len(path) + 1 /\ SubSeq(q, 1, Len(path)) = path}}
  IN SelectSeq(order, LAMBDA n : n \in names)

\* dst.mkdir(exist_ok=True)
mkdir(fs, path) == IF path \in DOMAIN fs THEN fs ELSE Put(fs, path, Dir)

\* copy_dir_recursive: ok is FALSE when the copy raised; a path longer than the
\* file system allows makes mkdir and copy2 raise
RECURSIVE copy_dir_recursive(_, _, _, _)
RECURSIVE copy_entries(_, _, _, _, _)
copy_dir_recursive(fs, src, dst, order) ==
  IF ~is_dir(fs, src) THEN [fs |-> fs, ok |-> FALSE]
  ELSE IF Len(dst) > MaxPathLen THEN [fs |-> fs, ok |-> FALSE]
  ELSE copy_entries(mkdir(fs, dst), src, dst, iterdir(mkdir(fs, dst), src, order), order)

\* the loop of copy_dir_recursive (lines 1098-1105)
copy_entries(fs, src, dst, entries, order) ==
  IF entries = <<>> THEN [fs |-> fs, ok |-> TRUE]
  ELSE LET src_path == Append(src, Head(entries))
           dst_path == Append(dst, Head(entries))
       IN IF is_dir(fs, src_path)
          THEN LET sub == copy_dir_recursive(fs, src_path, dst_path, order)
               IN IF sub.ok THEN copy_entries(sub.fs, src, dst, Tail(entries), order)
                  ELSE sub
          ELSE IF Len(dst_path) > MaxPathLen THEN [fs |-> fs, ok |-> FALSE]
          ELSE copy_entries(Put(fs, dst_path, fs[src_path]), src, dst, Tail(entries), order)

\* Storage.create_backup
create_backup(fs, backup_name, order) ==
  LET backup_path == <<"backups", backup_name>>
  IN copy_dir_recursive(mkdir(mkdir(fs, <<"backups">>), backup_path), <<>>, backup_path, order)

\* the names a call may draw from the clock: the newest snapshot's, or a later one
ClockNames(tree) ==
  {BackupNameList[n] : n \in {n \in 1..MaxBackups :
      \A k \in 1..MaxBackups : <<"backups", BackupNameList[k]>> \in DOMAIN tree => k <= n}}

CreateBackup(backup_name, order) ==
  LET made == create_backup(StorageTree(collections, containers, backups), backup_name, order)
  IN /\ Step
     /\ collections' = TasksOf(made.fs)
     /\ containers' = ProjectTasksOf(made.fs)
     /\ backups' = BackupsOf(made.fs)
     /\ last' = [Call("createBackup", 0, IF made.ok THEN "ok" ELSE "IO") EXCEPT
                   !.name = backup_name]

\* lines 1057-1064: every entry of the storage root but backups/ is removed
remove_all_but_backups(fs) ==
  [p \in {q \in DOMAIN fs : q = <<>> \/ q[1] = "backups"} |-> fs[p]]

\* restore_backup with the safety backup taken before the snapshot is looked for
restore_backup_backup_first(fs, backup_name, temp_name, order) ==
  LET backup_path == <<"backups", backup_name>>
      temp_backup == create_backup(fs, temp_name, order)
  IN IF backup_path \notin DOMAIN fs THEN [fs |-> temp_backup.fs, res |-> "NotFound"]
     ELSE IF ~temp_backup.ok THEN [fs |-> temp_backup.fs, res |-> "IO"]
     ELSE LET copied == copy_dir_recursive(remove_all_but_backups(temp_backup.fs),
                                           backup_path, <<>>, order)
          IN [fs |-> copied.fs, res |-> IF copied.ok THEN "ok" ELSE "IO"]

\* Storage.restore_backup; res is the error the call ends with, or "ok"
restore_backup(fs, backup_name, temp_name, order) ==
  LET backup_path == <<"backups", backup_name>>
      temp_backup == create_backup(fs, temp_name, order)
  IN IF backup_path \notin DOMAIN fs THEN [fs |-> fs, res |-> "NotFound"]
     ELSE IF ~temp_backup.ok THEN [fs |-> temp_backup.fs, res |-> "IO"]
     ELSE LET copied == copy_dir_recursive(remove_all_but_backups(temp_backup.fs),
                                           backup_path, <<>>, order)
          IN [fs |-> copied.fs, res |-> IF copied.ok THEN "ok" ELSE "IO"]

RestoreBackup(backup_name, temp_name, order) ==
  LET done == restore_backup(StorageTree(collections, containers, backups),
                             backup_name, temp_name, order)
  IN /\ Step
     /\ collections' = TasksOf(done.fs)
     /\ containers' = ProjectTasksOf(done.fs)
     /\ backups' = BackupsOf(done.fs)
     /\ last' = [Call("restoreBackup", 0, done.res) EXCEPT !.name = backup_name]

NextBackup ==
  \/ \E t \in InputTasks : AddTaskToProject(t)
  \/ \E t \in LegacyInputTasks : LegacyAdd(t)
  \/ \E name \in ClockNames(backups) : \E order \in ListingOrders : CreateBackup(name, order)
  \/ \E name \in BackupNames : \E temp \in ClockNames(backups) : \E order \in ListingOrders :
       RestoreBackup(name, temp, order)

SpecBackup == Init /\ [][NextBackup]_vars

\* ------------------------------------------------- concurrent processes
\* add_task_to_project up to and including its load (lines 727-733): the
\* container is read into the caller's memory
AddLoad(p, t) ==
  LET task == IF t.parent_project = ""
              THEN [t EXCEPT !.parent_project = default_project]
              ELSE t
  IN /\ procs[p].pc = "idle"
     /\ procs' = [procs EXCEPT ![p] =
          [pc |-> "loaded", task |-> {task},
           container |-> {load_project_task_container(containers, task.parent_project)},
           res |-> ""]]
     /\ UNCHANGED <<collections, containers, backups, last, steps, unreadable, config, queue>>

\* the rest of add_task_to_project (lines 734-741): the insertion into the copy
\* read earlier and the rewrite of the whole container file; nothing compares
\* the file with what was read, and no error is raised
AddSave(p) ==
  /\ procs[p].pc = "loaded"
  /\ \E task \in procs[p].task : \E container \in procs[p].container :
       containers' = save_project_task_container(containers, insert_by_status(container, task))
  /\ procs' = [procs EXCEPT ![p].pc = "done", ![p].res = "ok"]
  /\ UNCHANGED <<collections, backups, last, steps, unreadable, config, queue>>

NextConc ==
  \/ \E p \in Procs : \E t \in InputTasks : AddLoad(p, t)
  \/ \E p \in Procs : AddSave(p)

SpecConc == Init /\ [][NextConc]_vars

\* ------------------------------------------- legacy store maintenance
\* the collections Storage.update_task and Storage.delete_task try, in order,
\* that hold the id
holding_collections(files, id) ==
  SelectSeq(CollectionNames, LAMBDA n : Has(load_task_collection(files, n), id))

\* Storage.update_task: the updates are not applied ("simplified"); the first
\* collection that holds the id is written back as it was read
LegacyUpdate(id) ==
  LET holding == holding_collections(collections, id)
  IN /\ Step
     /\ IF holding # <<>>
        THEN /\ collections' = save_task_collection(collections, Head(holding),
                                  load_task_collection(collections, Head(holding)))
             /\ last' = Call("update", id, "ok")
        ELSE /\ last' = Call("update", id, "NotFound")
             /\ UNCHANGED collections
     /\ UNCHANGED <<containers, backups>>

\* Storage.delete_task: the id is deleted from the first collection that holds it
LegacyDelete(id) ==
  LET holding == holding_collections(collections, id)
  IN /\ Step
     /\ IF holding # <<>>
        THEN /\ collections' = save_task_collection(collections, Head(holding),
                                  Pop(load_task_collection(collections, Head(holding)), id))
             /\ last' = Call("delete", id, "ok")
        ELSE /\ last' = Call("delete", id, "NotFound")
             /\ UNCHANGED collections
     /\ UNCHANGED <<containers, backups>>

\* the scan without "completed": only tasks whose status is done are listed
tasks_to_move_done_only(active_collection) ==
  LET found == SelectSeq(values(active_collection), LAMBDA task : task.status = "done")
  IN [n \in DOMAIN found |-> found[n].id]

\* lines 945-949: the ids of the active collection whose status is terminal
tasks_to_move(active_collection) ==
  LET found == SelectSeq(values(active_collection),
                         LAMBDA task : task.status \in {"done", "completed"})
  IN [n \in DOMAIN found |-> found[n].id]

\* lines 952-964: each listed task leaves the copy of the active collection held
\* in memory and is written, with status done, into the completed collection
\* (one load and one save per task); the active collection is written last.
\* The assignment of progress is commented out in the source (line 957).
RECURSIVE move_listed_tasks(_, _, _)
move_listed_tasks(files, active_collection, listed) ==
  IF listed = <<>> THEN save_task_collection(files, "active", active_collection)
  ELSE IF Has(active_collection, Head(listed))
  THEN LET task == [active_collection[Head(listed)] EXCEPT !.status = "done"]
           completed_collection == load_task_collection(files, "completed")
       IN move_listed_tasks(
            save_task_collection(files, "completed", Put(completed_collection, Head(listed), task)),
            Pop(active_collection, Head(listed)), Tail(listed))
  ELSE move_listed_tasks(files, active_collection, Tail(listed))

\* Storage.fix_completed_tasks_consistency
fix_completed_tasks_consistency(files) ==
  LET active_collection == load_task_collection(files, "active")
      listed == tasks_to_move(active_collection)
  IN [files |-> move_listed_tasks(files, active_collection, listed),
      task_count |-> Len(listed)]

FixConsistency ==
  LET fixed == fix_completed_tasks_consistency(collections)
  IN /\ Step
     /\ collections' = fixed.files
     /\ last' = [Call("fixConsistency", 0, "ok") EXCEPT !.task_count = fixed.task_count]
     /\ UNCHANGED <<containers, backups>>

\* the legacy store with its maintenance calls; Storage.complete_task is
\* CompleteTask (it delegates to complete_task_in_project)
NextLegacy ==
  \/ \E t \in LegacyInputTasks : LegacyAdd(t)
  \/ \E id \in Ids : LegacyUpdate(id)
  \/ \E id \in Ids : LegacyDelete(id)
  \/ \E id \in Ids : \E f \in Range(CollectionNames) : \E t \in Range(CollectionNames) :
       LegacyMove(id, f, t)
  \/ FixConsistency
  \/ \E id \in Ids : CompleteTask(id)
  \/ RunMigration

SpecLegacy == Init /\ [][NextLegacy]_vars

\* ------------------------------------------------------- task updates
\* TaskUpdate: the fields a caller may set (an empty set is None)
TaskUpdate(status, progress) == [status |-> status, progress |-> progress]

UpdateInputs == {TaskUpdate(s, g) : s \in {{}, {"review"}}, g \in {{}, {100}, {101}}}

\* Task.update: ok is FALSE when it raised; the fields before progress are
\* assigned before the bound is tested
Task_update(task, updates) ==
  LET task1 == IF updates.status # {}
               THEN [task EXCEPT !.status = CHOOSE s \in updates.status : TRUE]
               ELSE task
  IN IF updates.progress # {}
     THEN IF \E g \in updates.progress : g > 100
          THEN [task |-> task1, ok |-> FALSE]
          ELSE [task |-> [task1 EXCEPT !.progress = updates.progress], ok |-> TRUE]
     ELSE [task |-> task1, ok |-> TRUE]

\* a caller reads a task and calls Task.update on the object it holds; nothing
\* is written to the store
EditTask(id, updates) ==
  LET hits == {c \in list_project_task_containers(containers, unreadable) : held_in_container(c, id)}
  IN /\ Step
     /\ \/ /\ hits = {}
           /\ last' = [Call("editTask", id, "NotFound") EXCEPT !.updates = {updates}]
        \/ \E c \in hits : \E task \in lookup_in_container(c, id) :
             LET edited == Task_update(task, updates)
             IN last' = [Call("editTask", id, IF edited.ok THEN "ok" ELSE "InvalidArgument")
                           EXCEPT !.container = {c.project_hash}, !.ret = {edited.task},
                                  !.updates = {updates}]
     /\ UNCHANGED <<collections, containers, backups>>

\* Storage.update_task_in_project with the updates it is given: they are not
\* applied ("simplified") and not validated; the container that holds the id is
\* written back as it was read
UpdateTaskInProject(id, updates) ==
  LET hits == {c \in list_project_task_containers(containers, unreadable) : held_in_container(c, id)}
  IN /\ Step
     /\ \/ /\ hits = {}
           /\ last' = [Call("updateTask", id, "NotFound") EXCEPT !.updates = {updates}]
           /\ UNCHANGED containers
        \/ \E c \in hits :
             /\ containers' = save_project_task_container(containers, c)
             /\ last' = [Call("updateTask", id, "ok") EXCEPT
                           !.container = {c.project_hash}, !.updates = {updates}]
     /\ UNCHANGED <<collections, backups>>

NextUpdate ==
  \/ \E t \in InputTasks : AddTaskToProject(t)
  \/ \E id \in Ids : \E updates \in UpdateInputs : EditTask(id, updates)
  \/ \E id \in Ids : \E updates \in UpdateInputs : UpdateTaskInProject(id, updates)

SpecUpdate == Init /\ [][NextUpdate]_vars

\* ------------------------------------------------ move_task step by step
\* Storage.move_task up to its first save (lines 712-717): the task is popped
\* from the source collection and the source file is rewritten; the task is then
\* held in the caller's memory only
MoveRemove(p, id, from_collection, to_collection) ==
  LET from_col == load_task_collection(collections, from_collection)
  IN /\ procs[p].pc = "idle"
     /\ IF Has(from_col, id)
        THEN /\ collections' = save_task_collection(collections, from_collection, Pop(from_col, id))
             /\ procs' = [procs EXCEPT ![p] =
                  [pc |-> "removed", task |-> {from_col[id]},
                   container |-> {<<from_collection, to_collection>>}, res |-> ""]]
        ELSE /\ procs' = [procs EXCEPT ![p] =
                  [pc |-> "done", task |-> {},
                   container |-> {<<from_collection, to_collection>>}, res |-> "NotFound"]]
             /\ UNCHANGED collections
     /\ UNCHANGED <<containers, backups, last, steps, unreadable, config, queue>>

\* the rest of Storage.move_task (lines 719-721): the target collection is read,
\* the task is put into it and the target file is rewritten
MoveInsert(p) ==
  /\ procs[p].pc = "removed"
  /\ \E task \in procs[p].task : \E ft \in procs[p].container :
       LET to_col == load_task_collection(collections, ft[2])
       IN collections' = save_task_collection(collections, ft[2], Put(to_col, task.id, task))
  /\ procs' = [procs EXCEPT ![p].pc = "done", ![p].res = "ok"]
  /\ UNCHANGED <<containers, backups, last, steps, unreadable, config, queue>>

NextMove ==
  \/ \E t \in LegacyInputTasks : LegacyAdd(t)
  \/ \E p \in Procs : \E id \in Ids :
       \E f \in Range(CollectionNames) : \E t \in Range(CollectionNames) :
         MoveRemove(p, id, f, t)
  \/ \E p \in Procs : MoveInsert(p)

SpecMove == Init /\ [][NextMove]_vars

\* ------------------------------------------------------ unreadable files
\* the entity files that exist under the storage root: the container files,
\* and the collection files that have been written with a task in them
EntityFiles(legacy, files) ==
  {<<"tasks", n>> : n \in {m \in Range(CollectionNames) : DOMAIN legacy[m] # {}}}
    \cup DOMAIN files

\* save_project_task_container and save_task_collection open the file for
\* writing, which empties it, and then dump into it (lines 463-464, 541-542):
\* a write that is cut short leaves a file that does not parse.  The model
\* keeps what the file held, to say which tasks it was the file of.
DamageFile(file) ==
  /\ steps < MaxSteps /\ steps' = steps + 1
  /\ file \in EntityFiles(collections, containers) \ unreadable
  /\ unreadable' = unreadable \cup {file}
  /\ last' = Call("damage", 0, "ok")
  /\ UNCHANGED <<collections, containers, backups, procs, config, queue>>

NextCorrupt ==
  \/ \E t \in InputTasks : AddTaskToProject(t)
  \/ \E t \in LegacyInputTasks : LegacyAdd(t)
  \/ \E file \in EntityFiles(collections, containers) : DamageFile(file)
  \/ \E id \in Ids : GetTaskAnywhere(id)
  \/ \E id \in Ids : UpdateTask(id)
  \/ \E id \in Ids : DeleteTask(id)
  \/ \E id \in Ids : CompleteTask(id)
  \/ RunMigration

SpecCorrupt == Init /\ [][NextCorrupt]_vars

\* ------------------------------------------------------------ listings
\* TaskFilters: the filters on fields the model's tasks have (an empty set is None)
TaskFilters(project, status) == [project |-> project, status |-> status]

FilterInputs ==
  {TaskFilters(p, s) : p \in {{}, {"general"}, {"work"}}, s \in {{}, {"todo"}}}

\* ProjectTaskContainer.get_all_tasks, as the set of the tasks listed
get_all_tasks(container) ==
  Range(container.active_tasks) \cup Range(container.completed_tasks)
    \cup Range(container.archived_tasks) \cup Range(container.deleted_tasks)

\* ProjectTaskContainer.get_filtered_tasks
get_filtered_tasks(container, filters) ==
  {task \in get_all_tasks(container) :
     /\ ~(filters.project # {} /\ task.parent_project \notin filters.project)
     /\ ~(filters.status # {} /\ task.status \notin filters.status)}

\* Storage.list_tasks_across_projects: the filters are not applied
\* ("simplified"); every task of every bucket of every readable container is
\* returned
list_tasks_across_projects(files, bad, filters) ==
  UNION {get_all_tasks(container) : container \in list_project_task_containers(files, bad)}

\* Storage.get_project_tasks
GetProjectTasks(project_name) ==
  /\ Step
  /\ last' = [Call("getProjectTasks", 0, "ok") EXCEPT
                !.name = project_name,
                !.ret = list_tasks_across_projects(containers, unreadable,
                                                   TaskFilters({project_name}, {}))]
  /\ UNCHANGED <<collections, containers, backups>>

\* a caller that holds a container applies get_filtered_tasks to it
GetFilteredTasks(project_name, filters) ==
  /\ Step
  /\ hash_project_name(project_name) \in (DOMAIN containers) \ unreadable
  /\ last' = [Call("getFilteredTasks", 0, "ok") EXCEPT
                !.name = project_name,
                !.ret = get_filtered_tasks(
                          load_project_task_container(containers, project_name), filters)]
  /\ UNCHANGED <<collections, containers, backups>>

NextList ==
  \/ \E t \in InputTasks : AddTaskToProject(t)
  \/ \E project_name \in {"general", "work"} : GetProjectTasks(project_name)
  \/ \E project_name \in {"general", "work"} : \E filters \in FilterInputs :
       GetFilteredTasks(project_name, filters)

SpecList == Init /\ [][NextList]_vars

\* ------------------------------------------- status change in a container
\* ProjectTaskContainer.remove_task: the pops are chained with `or`, so the
\* first bucket that holds the id, in the order active, completed, archived,
\* deleted, gives the task and the later buckets are not touched
remove_task(container, task_id) ==
  IF Has(container.active_tasks, task_id)
  THEN [task |-> {container.active_tasks[task_id]},
        container |-> [container EXCEPT !.active_tasks = Pop(@, task_id)]]
  ELSE IF Has(container.completed_tasks, task_id)
  THEN [task |-> {container.completed_tasks[task_id]},
        container |-> [container EXCEPT !.completed_tasks = Pop(@, task_id)]]
  ELSE IF Has(container.archived_tasks, task_id)
  THEN [task |-> {container.archived_tasks[task_id]},
        container |-> [container EXCEPT !.archived_tasks = Pop(@, task_id)]]
  ELSE IF Has(container.deleted_tasks, task_id)
  THEN [task |-> {container.deleted_tasks[task_id]},
        container |-> [container EXCEPT !.deleted_tasks = Pop(@, task_id)]]
  ELSE [task |-> {}, container |-> container]

\* ProjectTaskContainer.update_task_status; add_task is the status chain of
\* insert_by_status
update_task_status(container, task_id, new_status) ==
  LET removed == remove_task(container, task_id)
  IN IF removed.task = {} THEN container
     ELSE LET task == CHOOSE t \in removed.task : TRUE
          IN insert_by_status(removed.container, [task EXCEPT !.status = new_status])

NewStatusInputs == {"in_progress", "done", "cancelled"}

\* a caller loads the container of a project, changes the status of a task
\* through the container and writes the container back (startTask is the
\* case new_status = in_progress)
UpdateTaskStatus(project_name, task_id, new_status) ==
  LET container == load_project_task_container(containers, project_name)
  IN /\ Step
     /\ hash_project_name(project_name) \in (DOMAIN containers) \ unreadable
     /\ containers' = save_project_task_container(
                        containers, update_task_status(container, task_id, new_status))
     /\ last' = [Call("updateTaskStatus", task_id, "ok") EXCEPT
                   !.container = {container.project_hash},
                   !.updates = {TaskUpdate({new_status}, {})}]
     /\ UNCHANGED <<collections, backups>>

NextStatus ==
  \/ \E t \in InputTasks : AddTaskToProject(t)
  \/ \E id \in Ids : DeleteTask(id)
  \/ \E project_name \in {"general", "work"} : \E id \in Ids : \E s \in NewStatusInputs :
       UpdateTaskStatus(project_name, id, s)

SpecStatus == Init /\ [][NextStatus]_vars

\* ------------------------------------------------------------ timestamps
\* datetime.now(): calls are made one after the other, and the time of a
\* call is its number
now == steps + 1

\* a task with the updated_at that Task.new gives it
Stamped(task, at) ==
  [id |-> task.id, parent_project |-> task.parent_project, status |-> task.status,
   progress |-> task.progress, updated_at |-> at]

\* Storage.add_task_to_project of a task that Task.new has just made
AddTaskAt(t) ==
  LET task == Stamped(IF t.parent_project = ""
                      THEN [t EXCEPT !.parent_project = default_project]
                      ELSE t, now)
      container == load_project_task_container(containers, task.parent_project)
  IN /\ Step
     /\ containers' = save_project_task_container(containers, insert_by_status(container, task))
     /\ last' = [Call("addTaskToProject", task.id, "ok") EXCEPT
                   !.container = {container.project_hash}]
     /\ UNCHANGED <<collections, backups>>

\* Storage.delete_task_from_project with its assignment of updated_at (line 813)
DeleteTaskAt(id) ==
  LET hits == {c \in list_project_task_containers(containers, unreadable) :
                 found_for_delete(c, id)}
  IN /\ Step
     /\ \/ /\ hits = {}
           /\ last' = Call("deleteTask", id, "NotFound")
           /\ UNCHANGED containers
        \/ \E c \in hits :
             /\ containers' = save_project_task_container(containers,
                  [delete_in_container(c, id) EXCEPT !.deleted_tasks[id].updated_at = now])
             /\ last' = [Call("deleteTask", id, "ok") EXCEPT !.container = {c.project_hash}]
     /\ UNCHANGED <<collections, backups>>

\* Storage.complete_task_in_project with its assignment of updated_at (line 834)
CompleteTaskAt(id) ==
  LET hits == {c \in list_project_task_containers(containers, unreadable) :
                 found_for_complete(c, id)}
  IN /\ Step
     /\ \/ /\ hits = {}
           /\ last' = Call("completeTask", id, "NotFound")
           /\ UNCHANGED containers
        \/ \E c \in hits :
             /\ containers' = save_project_task_container(containers,
                  [complete_in_container(c, id) EXCEPT !.completed_tasks[id].updated_at = now])
             /\ last' = [Call("completeTask", id, "ok") EXCEPT !.container = {c.project_hash}]
     /\ UNCHANGED <<collections, backups>>

\* UpdateTask is Storage.update_task_in_project as it is: it assigns
\* embedding_vector and writes the container back, and assigns no updated_at
NextClock ==
  \/ \E t \in InputTasks : AddTaskAt(t)
  \/ \E id \in Ids : UpdateTask(id)
  \/ \E id \in Ids : DeleteTaskAt(id)
  \/ \E id \in Ids : CompleteTaskAt(id)

SpecClock == Init /\ [][NextClock]_vars

\* ------------------------------------------------- tdz.hlx round trips
\* the tdz.hlx files a run may find: written by this program, by the other
\* implementations that share the directory, or by hand
Fractions == {<<>>, <<5>>, <<1, 2, 3, 4, 5, 6, 7>>, <<0, 0, 0, 0, 0, 0, 9>>}
TimestampTexts ==
  {[secs |-> 0, frac |-> f, zone |-> z] :
     f \in Fractions, z \in {"Z", "+00:00", ""}}
ConfigFiles ==
  {[registration |-> r, default_assignee |-> a] :
     r \in {{}} \cup {{[registered_at |-> t]} : t \in TimestampTexts},
     a \in {{}, {""}, {"human"}}}

InitCodec ==
  /\ collections = [n \in Range(CollectionNames) |-> TaskCollection_new]
  /\ containers = EmptyMap
  /\ backups = EmptyMap
  /\ last = Call("init", 0, "ok")
  /\ steps = 0
  /\ procs = [p \in Procs |-> Idle]
  /\ unreadable = {}
  /\ config \in {[file |-> f, held |-> {}] : f \in ConfigFiles}
  /\ queue = [file |-> {}, held |-> QueueCollection_new]

LoadConfig ==
  /\ steps < MaxSteps /\ steps' = steps + 1
  /\ config' = [config EXCEPT !.held = {load_config(config.file)}]
  /\ last' = Call("loadConfig", 0, "ok")
  /\ UNCHANGED <<collections, containers, backups, procs, unreadable, queue>>

SaveConfig ==
  /\ steps < MaxSteps /\ steps' = steps + 1
  /\ config.held # {}
  /\ config' = [config EXCEPT
                  !.file = save_config(CHOOSE c \in config.held : TRUE)]
  /\ last' = Call("saveConfig", 0, "ok")
  /\ UNCHANGED <<collections, containers, backups, procs, unreadable, queue>>

\* clear_registration
ClearRegistration ==
  /\ steps < MaxSteps /\ steps' = steps + 1
  /\ LET loaded == load_config(config.file)
         cleared == [loaded EXCEPT !.registration = {}]
     IN config' = [file |-> save_config(cleared), held |-> {cleared}]
  /\ last' = Call("clearRegistration", 0, "ok")
  /\ UNCHANGED <<collections, containers, backups, procs, unreadable, queue>>

NextCodec ==
  \/ LoadConfig
  \/ SaveConfig
  \/ ClearRegistration

SpecCodec == InitCodec /\ [][NextCodec]_vars

\* ------------------------------------------------------- task progress
\* the progress values a caller may pass (an empty set is None)
ProgressInputs == {{}, {-1}, {0}, {100}, {101}}

\* Task.new_full: ok is FALSE when it raised
Task_new_full(i, p, s, g) ==
  IF g # {} /\ \E v \in g : v > 100
  THEN [task |-> {}, ok |-> FALSE]
  ELSE [task |-> {Task(i, p, s, g)}, ok |-> TRUE]

\* Task.complete
Task_complete(task) == [task EXCEPT !.status = "done", !.progress = {100}]

\* the caller makes a task with Task.new and holds it
TaskNew(t) ==
  /\ Step
  /\ last' = [Call("new", t.id, "ok") EXCEPT !.ret = {t}]
  /\ UNCHANGED <<collections, containers, backups>>

\* the caller makes a task with Task.new_full and holds it
TaskNewFull(t, g) ==
  LET made == Task_new_full(t.id, t.parent_project, t.status, g)
  IN /\ Step
     /\ last' = [Call("new_full", t.id, IF made.ok THEN "ok" ELSE "InvalidArgument")
                   EXCEPT !.ret = made.task]
     /\ UNCHANGED <<collections, containers, backups>>

\* Task.update on the task the caller holds
TaskUpdateHeld(updates) ==
  /\ Step
  /\ last.ret # {}
  /\ \E task \in last.ret :
       LET edited == Task_update(task, updates)
       IN last' = [Call("update", task.id, IF edited.ok THEN "ok" ELSE "InvalidArgument")
                     EXCEPT !.ret = {edited.task}, !.updates = {updates}]
  /\ UNCHANGED <<collections, containers, backups>>

\* Task.complete on the task the caller holds
TaskCompleteHeld ==
  /\ Step
  /\ last.ret # {}
  /\ \E task \in last.ret :
       last' = [Call("complete", task.id, "ok") EXCEPT !.ret = {Task_complete(task)}]
  /\ UNCHANGED <<collections, containers, backups>>

NextProgress ==
  \/ \E t \in LegacyInputTasks : TaskNew(t)
  \/ \E t \in LegacyInputTasks : \E g \in ProgressInputs : TaskNewFull(t, g)
  \/ \E s \in {{}, {"review"}} : \E g \in ProgressInputs : TaskUpdateHeld(TaskUpdate(s, g))
  \/ TaskCompleteHeld

SpecProgress == Init /\ [][NextProgress]_vars

\* --------------------------------------------------- the deleted bucket
\* Storage.add_task_to_project as a function of the container files
add_task_to_project(files, t) ==
  LET task == IF t.parent_project = ""
              THEN [t EXCEPT !.parent_project = default_project]
              ELSE t
  IN save_project_task_container(files,
       insert_by_status(load_project_task_container(files, task.parent_project), task))

\* the container files after one or two add_task_to_project calls
FilesAfterAdds ==
  LET one == {add_task_to_project(EmptyMap, t) : t \in LegacyInputTasks}
  IN one \cup {add_task_to_project(files, t) : files \in one, t \in LegacyInputTasks}

\* the legacy store as it is created, or after one Storage.add_task call
LegacyAfterAdds ==
  LET empty == [n \in Range(CollectionNames) |-> TaskCollection_new]
  IN {empty} \cup {save_task_collection(empty, "active", Put(TaskCollection_new, t.id, t)) :
                     t \in LegacyInputTasks}

\* a store that has been in use: tasks were added to projects, and the legacy
\* store may still hold a task
InitDeleted ==
  /\ collections \in LegacyAfterAdds
  /\ containers \in FilesAfterAdds
  /\ backups = EmptyMap
  /\ last = Call("init", 0, "ok")
  /\ steps = 0
  /\ procs = [p \in Procs |-> Idle]
  /\ unreadable = {}
  /\ config = [file |-> save_config(Config), held |-> {}]
  /\ queue = [file |-> {}, held |-> QueueCollection_new]

NextDeleted ==
  \/ \E id \in Ids : DeleteTask(id)
  \/ \E id \in Ids : CompleteTask(id)
  \/ \E id \in Ids : UpdateTask(id)
  \/ FixConsistency
  \/ RunMigration

SpecDeleted == InitDeleted /\ [][NextDeleted]_vars

\* ------------------------------------------------ interrupted migration
\* migrate_to_project_based stopped by the end of its process after the
\* containers of the first k groups have been saved (lines 918-934)
migrate_first_groups(legacy, files, bad, k) ==
  LET all_tasks == all_legacy_tasks(legacy, bad)
      report == [Call("runMigrationInterrupted", 0, "killed") EXCEPT
                   !.tasks_found = Len(all_tasks)]
  IN migrate_groups(files, bad, SubSeq(group_names(all_tasks, {}), 1, k), all_tasks, report)

\* the number of project groups of the legacy store (lines 911-916)
GroupCount(legacy, bad) == Len(group_names(all_legacy_tasks(legacy, bad), {}))

\* no report is returned: the caller is gone
MigrationInterrupted(k) ==
  /\ Step
  /\ k \in 1..GroupCount(collections, unreadable)
  /\ containers' = migrate_first_groups(collections, containers, unreadable, k).files
  /\ last' = Call("runMigrationInterrupted", 0, "killed")
  /\ UNCHANGED <<collections, backups>>

\* the legacy store after one or two Storage.add_task calls
LegacyAfterTwoAdds ==
  LET one == LegacyAfterAdds \ {[n \in Range(CollectionNames) |-> TaskCollection_new]}
  IN one \cup {save_task_collection(files, "active", Put(files["active"], t.id, t)) :
                 files \in one, t \in LegacyInputTasks}

\* a legacy store that has not been migrated yet
InitResume ==
  /\ collections \in LegacyAfterTwoAdds
  /\ containers = EmptyMap
  /\ backups = EmptyMap
  /\ last = Call("init", 0, "ok")
  /\ steps = 0
  /\ procs = [p \in Procs |-> Idle]
  /\ unreadable = {}
  /\ config = [file |-> save_config(Config), held |-> {}]
  /\ queue = [file |-> {}, held |-> QueueCollection_new]

NextResume ==
  \/ \E k \in 1..MaxTasks : MigrationInterrupted(k)
  \/ RunMigration
  \/ \E id \in Ids : DeleteTask(id)

SpecResume == InitResume /\ [][NextResume]_vars

\* ------------------------------------------- concurrent relocations
\* complete_task_in_project or delete_task_from_project up to the pop and the
\* insertion in its copy (lines 797-814, 821-835): the listing reads the
\* container files into the caller's memory
RelocateLoad(p, op, id) ==
  LET listed == list_project_task_containers(containers, unreadable)
      hits == IF op = "completing"
              THEN {c \in listed : found_for_complete(c, id)}
              ELSE {c \in listed : found_for_delete(c, id)}
  IN /\ procs[p].pc \in {"idle", "done"}
     /\ \/ /\ hits = {}
           /\ procs' = [procs EXCEPT ![p] =
                [pc |-> "done", task |-> {}, container |-> {}, res |-> "NotFound"]]
        \/ \E c \in hits :
             procs' = [procs EXCEPT ![p] =
               [pc |-> op, task |-> lookup_in_container(c, id), container |-> {c}, res |-> ""]]
     /\ UNCHANGED <<collections, containers, backups, last, steps, unreadable, config, queue>>

\* the save that ends the call (lines 815, 836): the whole container file is
\* replaced by the caller's copy
RelocateSave(p) ==
  /\ procs[p].pc \in {"completing", "deleting"}
  /\ \E task \in procs[p].task : \E c \in procs[p].container :
       containers' = save_project_task_container(containers,
                       IF procs[p].pc = "completing"
                       THEN complete_in_container(c, task.id)
                       ELSE delete_in_container(c, task.id))
  /\ procs' = [procs EXCEPT ![p].pc = "done", ![p].res = "ok"]
  /\ UNCHANGED <<collections, backups, last, steps, unreadable, config, queue>>

\* a store in use; last.ret keeps the container files the callers found
InitRace ==
  /\ collections = [n \in Range(CollectionNames) |-> TaskCollection_new]
  /\ containers \in FilesAfterAdds
  /\ backups = EmptyMap
  /\ last = [Call("init", 0, "ok") EXCEPT !.ret = {containers}]
  /\ steps = 0
  /\ procs = [p \in Procs |-> Idle]
  /\ unreadable = {}
  /\ config = [file |-> save_config(Config), held |-> {}]
  /\ queue = [file |-> {}, held |-> QueueCollection_new]

NextRace ==
  \/ \E p \in Procs : \E op \in {"completing", "deleting"} : \E id \in Ids :
       RelocateLoad(p, op, id)
  \/ \E p \in Procs : RelocateSave(p)

SpecRace == InitRace /\ [][NextRace]_vars

\* ------------------------------------------------ single-task calls
\* the calls on one task of the project store, made one after the other on a
\* store in use
NextFrame ==
  \/ \E id \in Ids : UpdateTask(id)
  \/ \E id \in Ids : DeleteTask(id)
  \/ \E id \in Ids : CompleteTask(id)

SpecFrame == InitRace /\ [][NextFrame]_vars

\* --------------------------------------- fixConsistency step by step
\* the listed id the loop of lines 952-962 takes next: the first, in the order
\* of tasks_to_move, that the copy of the active collection still holds
next_listed(active_collection) == Head(tasks_to_move(active_collection))

\* one pass of the loop body (lines 954-962): the task is popped from the copy
\* of the active collection, the completed collection is loaded, given the
\* task with status done, and saved
fix_move_next(files, active_collection) ==
  LET task_id == next_listed(active_collection)
      task == [active_collection[task_id] EXCEPT !.status = "done"]
      completed_collection == load_task_collection(files, "completed")
  IN [files |-> save_task_collection(files, "completed",
                                     Put(completed_collection, task_id, task)),
      active_collection |-> Pop(active_collection, task_id)]

\* lines 944-951: the active collection is loaded and the terminal tasks listed
FixLoad(p) ==
  /\ procs[p].pc = "idle"
  /\ IF <<"tasks", "active">> \in unreadable
     THEN procs' = [procs EXCEPT ![p] =
            [pc |-> "done", task |-> {}, container |-> {}, res |-> "Corrupt"]]
     ELSE LET active_collection == load_task_collection(collections, "active")
              listed == tasks_to_move(active_collection)
          IN procs' = [procs EXCEPT ![p] =
               [pc |-> "fixing", task |-> {active_collection[id] : id \in Range(listed)},
                container |-> {active_collection}, res |-> ""]]
  /\ UNCHANGED <<collections, containers, backups, last, steps, unreadable, config, queue>>

\* one pass of the loop; the load of a completed file that does not parse
\* raises (line 960) and ends the call
FixMoveNext(p) ==
  /\ procs[p].pc = "fixing"
  /\ \E active_collection \in procs[p].container :
       /\ tasks_to_move(active_collection) # <<>>
       /\ IF <<"tasks", "completed">> \in unreadable
          THEN /\ procs' = [procs EXCEPT ![p].pc = "done", ![p].res = "Corrupt"]
               /\ UNCHANGED collections
          ELSE LET moved == fix_move_next(collections, active_collection)
               IN /\ collections' = moved.files
                  /\ procs' = [procs EXCEPT ![p].container = {moved.active_collection}]
  /\ UNCHANGED <<containers, backups, last, steps, unreadable, config, queue>>

\* line 964: the copy of the active collection is saved
FixSaveActive(p) ==
  /\ procs[p].pc = "fixing"
  /\ \E active_collection \in procs[p].container :
       /\ tasks_to_move(active_collection) = <<>>
       /\ collections' = save_task_collection(collections, "active", active_collection)
  /\ unreadable' = unreadable \ {<<"tasks", "active">>}
  /\ procs' = [procs EXCEPT ![p].pc = "done", ![p].res = "ok"]
  /\ UNCHANGED <<containers, backups, last, steps, config, queue>>

\* the process ends inside the save it was about to make (lines 541-542: the
\* file is opened for writing and then dumped into): the file does not parse.
\* The save of the completed collection comes after its load (line 960)
FixStopInSave(p) ==
  /\ procs[p].pc = "fixing"
  /\ \E active_collection \in procs[p].container :
       IF tasks_to_move(active_collection) # <<>>
       THEN /\ <<"tasks", "completed">> \notin unreadable
            /\ unreadable' = unreadable \cup {<<"tasks", "completed">>}
       ELSE unreadable' = unreadable \cup {<<"tasks", "active">>}
  /\ procs' = [procs EXCEPT ![p].pc = "stopped"]
  /\ UNCHANGED <<collections, containers, backups, last, steps, config, queue>>

\* the process ends between two statements
FixStop(p) ==
  /\ procs[p].pc = "fixing"
  /\ procs' = [procs EXCEPT ![p].pc = "stopped"]
  /\ UNCHANGED <<collections, containers, backups, last, steps, unreadable, config, queue>>

NextFix ==
  \/ \E p \in Procs : FixLoad(p)
  \/ \E p \in Procs : FixMoveNext(p)
  \/ \E p \in Procs : FixSaveActive(p)
  \/ \E p \in Procs : FixStopInSave(p)
  \/ \E p \in Procs : FixStop(p)

SpecFix == InitResume /\ [][NextFix]_vars

\* ------------------------------------------------------ queue sessions
\* the id of a new item or session is made from a uuid: one that is not in use
new_session_id(sessions) == Cardinality(DOMAIN sessions) + 1

\* QueueCollection.add_item
add_item(c, item) == [c EXCEPT !.items = Put(c.items, item.id, item)]

\* QueueCollection.remove_item
remove_item(c, id) == [c EXCEPT !.items = Pop(c.items, id)]

\* QueueCollection.start_session (models.py 1190-1201)
start_session(c, queue_item_id) ==
  IF ~Has(c.items, queue_item_id)
  THEN [res |-> "NotFound", collection |-> c, ret |-> {}]
  ELSE IF c.items[queue_item_id].status # "backlog"
  THEN [res |-> "NotBacklog", collection |-> c, ret |-> {}]
  ELSE LET session_id == new_session_id(c.sessions)
       IN [res |-> "ok",
           collection |->
             [items |-> [c.items EXCEPT ![queue_item_id].status = "active"],
              sessions |-> Put(c.sessions, session_id,
                               QueueSession_new(session_id, queue_item_id))],
           ret |-> {session_id}]

\* QueueCollection.end_session (models.py 1203-1213)
end_session(c, session_id) ==
  IF ~Has(c.sessions, session_id)
  THEN [res |-> "NotFound", collection |-> c]
  ELSE IF c.sessions[session_id].end_time # {}
  THEN [res |-> "AlreadyEnded", collection |-> c]
  ELSE LET queue_item_id == c.sessions[session_id].queue_item_id
       IN [res |-> "ok",
           collection |->
             [items |-> IF Has(c.items, queue_item_id)
                        THEN [c.items EXCEPT ![queue_item_id].status = "complete"]
                        ELSE c.items,
              sessions |-> [c.sessions EXCEPT ![session_id].end_time = {"now"}]]]

\* load_queue_collection (storage.py 1722-1736): a new collection when there is
\* no file, else what json.load gives: items and sessions are dicts of dicts
load_queue_collection(file) ==
  IF file = {} THEN QueueCollection_new ELSE CHOOSE c \in file : TRUE

\* start_queue_session (storage.py 1767-1785) on the collection it loaded. The
\* session is put without a test of the item; the status of an item that is
\* there is assigned as an attribute (line 1782), which a dict loaded from JSON
\* does not take; without the item the collection goes to
\* save_queue_collection, whose json.dump (line 1720) cannot encode the session
\* object and raises after the file was opened for writing
start_queue_session(collection, queue_item_id) ==
  LET session_id == new_session_id(collection.sessions)
      sessions == Put(collection.sessions, session_id,
                      QueueSession_new(session_id, queue_item_id))
  IN IF Has(collection.items, queue_item_id)
     THEN [res |-> "AttributeError", dumped |-> {}]
     ELSE [res |-> "TypeError",
           dumped |-> {[items |-> collection.items, sessions |-> sessions]}]

\* end_queue_session (storage.py 1787-1800) on the collection it loaded: the
\* end time of a session that is there is assigned as an attribute (line 1793)
\* of the dict loaded from JSON; there is no test that the session has ended
end_queue_session(collection, session_id) ==
  IF ~Has(collection.sessions, session_id)
  THEN [res |-> "NotFound", dumped |-> {}]
  ELSE [res |-> "AttributeError", dumped |-> {}]

\* add_queue_item (storage.py 1739-1742): the QueueItem object is put and the
\* collection saved; json.dump cannot encode the object
add_queue_item(collection, item) ==
  [res |-> "TypeError", dumped |-> {add_item(collection, item)}]

\* the queue files found when the program starts: none, or one written by
\* another todozi program for an item that is in backlog, started, or ended
QueueFiles ==
  LET backlog == add_item(QueueCollection_new, QueueItem_new(1))
      active == start_session(backlog, 1).collection
      complete == end_session(active, 1).collection
  IN {{}, {backlog}, {active}, {complete}}

\* the QueueCollection a caller holds is the one the file describes
InitQueue ==
  /\ collections = [n \in Range(CollectionNames) |-> TaskCollection_new]
  /\ containers = EmptyMap
  /\ backups = EmptyMap
  /\ last = Call("init", 0, "ok")
  /\ steps = 0
  /\ procs = [p \in Procs |-> Idle]
  /\ unreadable = {}
  /\ config = [file |-> save_config(Config), held |-> {}]
  /\ \E file \in QueueFiles :
       queue = [file |-> file, held |-> load_queue_collection(file)]

\* one call on the QueueCollection a caller holds
QueueStep ==
  /\ steps < MaxSteps /\ steps' = steps + 1
  /\ UNCHANGED <<collections, containers, backups, procs, unreadable, config>>

\* an item made by QueueItem.new is added: its id is in use nowhere
AddItem(id) ==
  /\ QueueStep
  /\ ~Has(queue.held.items, id)
  /\ \A sid \in DOMAIN queue.held.sessions :
       queue.held.sessions[sid].queue_item_id # id
  /\ queue' = [queue EXCEPT !.held = add_item(queue.held, QueueItem_new(id))]
  /\ last' = Call("add_item", id, "ok")

RemoveItem(id) ==
  /\ QueueStep
  /\ queue' = [queue EXCEPT !.held = remove_item(queue.held, id)]
  /\ last' = Call("remove_item", id,
                  IF Has(queue.held.items, id) THEN "ok" ELSE "NotFound")

StartSession(queue_item_id) ==
  /\ QueueStep
  /\ LET r == start_session(queue.held, queue_item_id)
     IN /\ queue' = [queue EXCEPT !.held = r.collection]
        /\ last' = [Call("start_session", queue_item_id, r.res) EXCEPT !.ret = r.ret]

EndSession(session_id) ==
  /\ QueueStep
  /\ LET r == end_session(queue.held, session_id)
     IN /\ queue' = [queue EXCEPT !.held = r.collection]
        /\ last' = Call("end_session", session_id, r.res)

\* a call of storage.py on queue.json: a file that does not parse raises in
\* load_queue_collection (line 1729); a dump that raises leaves the file cut
\* short (lines 1719-1720)
QueueFileCall(op, id, r) ==
  /\ IF <<"queue", "queue">> \in unreadable
     THEN /\ last' = Call(op, id, "Corrupt")
          /\ UNCHANGED <<queue, unreadable>>
     ELSE /\ last' = Call(op, id, r.res)
          /\ IF r.dumped = {}
             THEN UNCHANGED <<queue, unreadable>>
             ELSE /\ queue' = [queue EXCEPT !.file = r.dumped]
                  /\ unreadable' = unreadable \cup {<<"queue", "queue">>}
  /\ UNCHANGED <<collections, containers, backups, procs, config>>

StartQueueSession(queue_item_id) ==
  /\ steps < MaxSteps /\ steps' = steps + 1
  /\ QueueFileCall("start_queue_session", queue_item_id,
                   start_queue_session(load_queue_collection(queue.file),
                                       queue_item_id))

EndQueueSession(session_id) ==
  /\ steps < MaxSteps /\ steps' = steps + 1
  /\ QueueFileCall("end_queue_session", session_id,
                   end_queue_session(load_queue_collection(queue.file),
                                     session_id))

AddQueueItem(id) ==
  /\ steps < MaxSteps /\ steps' = steps + 1
  /\ QueueFileCall("add_queue_item", id,
                   add_queue_item(load_queue_collection(queue.file),
                                  QueueItem_new(id)))

NextQueue ==
  \/ \E id \in Ids : AddItem(id)
  \/ \E id \in Ids : RemoveItem(id)
  \/ \E id \in Ids : StartSession(id)
  \/ \E sid \in 1..MaxSteps : EndSession(sid)
  \/ \E id \in Ids : StartQueueSession(id)
  \/ \E sid \in 1..MaxSteps : EndQueueSession(sid)
  \/ \E id \in Ids : AddQueueItem(id)

SpecQueue == InitQueue /\ [][NextQueue]_vars

\* ================================================================ claims
\* what the claims speak of, stated apart from the definitions above
Holders(files, id) ==
  {<<h, b>> \in (DOMAIN files) \X Range(BucketNames) : id \in DOMAIN files[h][b]}

BucketsOf(container, id) == {b \in Range(BucketNames) : id \in DOMAIN container[b]}

RecordCount(container) ==
  Cardinality(DOMAIN container.active_tasks) + Cardinality(DOMAIN container.completed_tasks)
    + Cardinality(DOMAIN container.archived_tasks) + Cardinality(DOMAIN container.deleted_tasks)

\* the status -> bucket table of the data model
MappedBucket(status) ==
  CASE status \in {"todo", "pending", "in_progress", "blocked", "review"} -> "active_tasks"
    [] status \in {"done", "completed"} -> "completed_tasks"
    [] status \in {"cancelled", "deferred"} -> "archived_tasks"

LegacyRecords(files) == {files[n][i] : <<n, i>> \in {x \in Range(CollectionNames) \X Ids : x[2] \in DOMAIN files[x[1]]}}

DuplicatedIn(files) ==
  {<<h, i>> \in (DOMAIN files) \X Ids : Cardinality(BucketsOf(files[h], i)) > 1}

C6_BackupRestoreRoundTrip ==
  [][/\ (last'.op = "createBackup") => (last'.res = "ok")
     /\ (last.op = "createBackup" /\ last'.op = "restoreBackup" /\ last'.name = last.name)
          => /\ last'.res = "ok"
             /\ collections' = collections
             /\ containers' = containers]_vars

NestedBackups(tree, name) ==
  {q \in DOMAIN tree : Len(q) >= 3 /\ SubSeq(q, 1, 3) = <<"backups", name, "backups">>}

\* C14: the snapshot that createBackup() writes holds no backups/ subtree:
\* neither an earlier snapshot nor a copy of the snapshot itself is nested in it.
C14_SnapshotExcludesBackups ==
  (last.op = "createBackup") => NestedBackups(backups, last.name) = {}

\* C15: restoreBackup(name) with a name that is no snapshot under backups/
\* fails with NotFound and changes nothing: the legacy collections, the
\* project containers and the backups/ subtree are as before (no entry is
\* removed, no safety backup is made).
C15_RestoreOfMissingSnapshot ==
  [][(last'.op = "restoreBackup" /\ <<"backups", last'.name>> \notin DOMAIN backups) =>
       /\ last'.res = "NotFound"
       /\ UNCHANGED <<collections, containers, backups>>]_vars

\* a restore of a missing name in a store that holds a task and another snapshot
C15_Witness ==
  /\ last.op = "restoreBackup" /\ last.res = "NotFound"
  /\ <<"backups", last.name>> \notin DOMAIN backups
  /\ \E n \in BackupNames : <<"backups", n>> \in DOMAIN backups
  /\ \E h \in DOMAIN containers : \E i \in Ids : BucketsOf(containers[h], i) # {}

\* the snapshot of the given name holds the given collections and containers
SnapshotHolds(tree, name, legacy, files) ==
  /\ <<"backups", name, "tasks">> \in DOMAIN tree
  /\ tree[<<"backups", name, "tasks">>].data = {legacy}
  /\ <<"backups", name, "project_tasks">> \in DOMAIN tree
  /\ tree[<<"backups", name, "project_tasks">>].data = {files}

LegacyHolders(files, id) == {n \in Range(CollectionNames) : id \in DOMAIN files[n]}

C19_MoveIsAtomic ==
  \A p \in Procs : \A ft \in procs[p].container : \A task \in procs[p].task :
    (ft[1] # ft[2]) =>
      /\ (procs[p].pc = "removed") =>
           Cardinality({n \in {ft[1], ft[2]} : task.id \in DOMAIN collections[n]}) = 1
      /\ (procs[p].pc = "done" /\ procs[p].res = "ok"
            /\ \A q \in Procs \ {p} : procs[q].pc = "idle") =>
           /\ task.id \in DOMAIN collections[ft[2]]
           /\ task.id \notin DOMAIN collections[ft[1]]

\* C20: legacy complete(id) on a task held by a legacy collection leaves the
\* task in the legacy completed collection, with status done, and in no other
\* legacy collection.
C20_LegacyCompleteMoves ==
  [][(last'.op = "completeTask" /\ LegacyHolders(collections, last'.id) # {}) =>
       /\ LegacyHolders(collections', last'.id) = {"completed"}
       /\ collections'["completed"][last'.id].status = "done"]_vars

\* C21: getTask, updateTask, deleteTask and completeTask aimed at a task all of
\* whose container files are unreadable fail with Corrupt: they neither report
\* NotFound nor succeed.
C21_CorruptIsSurfaced ==
  [][(/\ last'.op \in {"getTaskAnywhere", "updateTask", "deleteTask", "completeTask"}
      /\ Holders(containers, last'.id) # {}
      /\ \A hb \in Holders(containers, last'.id) : hb[1] \in unreadable)
     => last'.res = "Corrupt"]_vars

\* the legacy collections and the containers of their tasks' projects that a
\* migration run cannot read
FailedItems(legacy, bad) ==
  LET read == {legacy[x[1]][x[2]] : x \in {y \in Range(CollectionNames) \X Ids :
                 <<"tasks", y[1]>> \notin bad /\ y[2] \in DOMAIN legacy[y[1]]}}
      projects == {<<"md5", IF t.parent_project = "" THEN "general" ELSE t.parent_project>> :
                     t \in read}
  IN {file \in bad : file[1] = "tasks"} \cup (projects \cap bad)

\* C22: runMigration() never aborts: it ends normally, its errors list is
\* non-empty exactly when a legacy collection or a container could not be read,
\* and every task of a readable collection whose project container is readable
\* is held by that container afterwards.
C22_MigrationIsBestEffort ==
  [][(last'.op = "runMigration") =>
       /\ last'.res = "ok"
       /\ (last'.errors # <<>>) <=> (FailedItems(collections, unreadable) # {})
       /\ \A n \in Range(CollectionNames) : \A i \in DOMAIN collections[n] :
            LET h == <<"md5", IF collections[n][i].parent_project = "" THEN "general"
                              ELSE collections[n][i].parent_project>>
            IN (<<"tasks", n>> \notin unreadable /\ h \notin unreadable) =>
                 (h \in DOMAIN containers' /\ BucketsOf(containers'[h], i) # {})]_vars

\* every task record held by a bucket of a container
StoredTasks(files) ==
  {files[hb[1]][hb[2]][i] : <<hb, i>> \in {x \in ((DOMAIN files) \X Range(BucketNames)) \X Ids :
                               x[2] \in DOMAIN files[x[1][1]][x[1][2]]}}

\* C23: getProjectTasks(P) returns exactly the stored tasks whose
\* parent_project is P (the project filter of the list operation is applied).
C23_ProjectFilterApplies ==
  (last.op = "getProjectTasks") =>
    last.ret = {t \in StoredTasks(containers) : t.parent_project = last.name}

\* C24: a status change through the container of a task the container holds
\* leaves the task, with the new status, in exactly the bucket the status
\* table gives for the new status, and every other task of the container in
\* the buckets it was in; a task of the active bucket that is started stays
\* in the active bucket.
C24_StatusChangeRelocates ==
  [][(last'.op = "updateTaskStatus") =>
       \A h \in last'.container : \A u \in last'.updates : \A s \in u.status :
         /\ (BucketsOf(containers[h], last'.id) # {}) =>
              /\ BucketsOf(containers'[h], last'.id) = {MappedBucket(s)}
              /\ containers'[h][MappedBucket(s)][last'.id].status = s
         /\ \A i \in Ids \ {last'.id} :
              BucketsOf(containers'[h], i) = BucketsOf(containers[h], i)]_vars

C26_SaveLoadRoundTrip ==
  [][(last.op = "loadConfig" /\ last'.op = "saveConfig") =>
       {load_config(config'.file)} = config.held]_vars

\* the records the container files hold: one per id, container and bucket
Records(files) == UNION {{<<id, hb>> : hb \in Holders(files, id)} : id \in Ids}

C28_CreateBackupReturns ==
  (last.op = "createBackup") =>
    /\ last.res = "ok"
    /\ <<"backups", last.name>> \in DOMAIN backups

\* C29: whatever creations, updates and completions a task went through, its
\* progress is unset or an integer from 0 to 100; a value outside that range,
\* a negative one included, is never assigned.
C29_ProgressInRange ==
  \A task \in last.ret : \A g \in task.progress : g \in 0..100

\* C30: a legacy move of an id that the source collection does not hold fails
\* with NotFound and leaves the collections as they were, also when the target
\* collection or the third collection holds the id.
C30_MoveOfAbsentId ==
  [][\A id \in Ids : \A f \in Range(CollectionNames) : \A t \in Range(CollectionNames) :
       (LegacyMove(id, f, t) /\ id \notin DOMAIN collections[f]) =>
         /\ last'.res = "NotFound"
         /\ UNCHANGED collections]_vars

\* a move that failed while another collection than its source held the id
C30_Witness ==
  /\ last.op = "move" /\ last.res = "NotFound"
  /\ \E n \in Range(CollectionNames) : last.id \in DOMAIN collections[n]

C33_RejectedUpdateChangesNothing ==
  [][(last'.op = "update" /\ last'.res = "InvalidArgument") =>
       last'.ret = last.ret]_vars

\* C34: a migration run only reads the legacy store: the active, completed
\* and archived collections hold the same tasks, field by field, after it.
C34_MigrationLeavesLegacyStore ==
  [][(last'.op = "runMigration") => collections' = collections]_vars

\* a run that migrated a task the legacy store still holds afterwards
C34_Witness ==
  /\ last.op = "runMigration" /\ last.tasks_migrated > 0
  /\ \E id \in Ids : holding_collections(collections, id) # <<>> /\ Holders(containers, id) # {}

OtherRecords(container, id) ==
  [b \in Range(BucketNames) |-> [k \in (DOMAIN container[b]) \ {id} |-> container[b][k]]]

\* C37: a completeTask, deleteTask or updateTask rewrites one container at
\* most, the one it found the task in: every other container, and every other
\* task of that container, is as before; a call that fails changes nothing.
C37_SingleTaskOpsTouchOneContainer ==
  [][(last'.op \in {"completeTask", "deleteTask", "updateTask"}) =>
       /\ DOMAIN containers' = DOMAIN containers
       /\ \A h \in DOMAIN containers :
            /\ h \notin last'.container => containers'[h] = containers[h]
            /\ OtherRecords(containers'[h], last'.id) = OtherRecords(containers[h], last'.id)
       /\ Cardinality(last'.container) <= 1
       /\ last'.res # "ok" => containers' = containers]_vars

\* a deleteTask that succeeded in a container that holds another task too,
\* or while another container exists
C37_Witness ==
  /\ last.op = "deleteTask" /\ last.res = "ok"
  /\ \E h \in DOMAIN containers : \E id \in Ids \ {last.id} :
       BucketsOf(containers[h], id) # {}

\* the ids a readable file of the legacy active or completed collection holds
PersistedIds ==
  UNION {DOMAIN collections[n] :
           n \in {m \in {"active", "completed"} : <<"tasks", m>> \notin unreadable}}

QueueRank(status) ==
  CASE status = "backlog" -> 0 [] status = "active" -> 1 [] status = "complete" -> 2

\* the sessions of a collection that have not ended, for one item
ActiveSessionsOf(c, queue_item_id) ==
  {sid \in DOMAIN c.sessions :
     /\ c.sessions[sid].queue_item_id = queue_item_id
     /\ c.sessions[sid].end_time = {}}

\* the stored queue, as a caller can read it
StoredQueue(q, bad) ==
  [held |-> q.held,
   file |-> IF <<"queue", "queue">> \in bad THEN {"cut short"} ELSE q.file]

\* C39: a call that starts a session returns normally only for an item that
\* was there in backlog, and leaves it active; a call that ends a session
\* returns normally only for a session that had not ended, and leaves its item
\* complete; a call that raises leaves the items and the sessions as they
\* were, in memory and on disk; no status moves back and no item has two
\* sessions that have not ended.
C39_QueueStatusMovesForward ==
  [][(last'.op \in {"start_session", "end_session",
                   "start_queue_session", "end_queue_session"}) =>
       LET before == IF last'.op \in {"start_session", "end_session"}
                     THEN queue.held ELSE load_queue_collection(queue.file)
           after == IF last'.op \in {"start_session", "end_session"}
                    THEN queue'.held ELSE load_queue_collection(queue'.file)
       IN /\ (last'.res # "ok") =>
               StoredQueue(queue', unreadable') = StoredQueue(queue, unreadable)
          /\ (last'.res = "ok" /\ last'.op \in {"start_session", "start_queue_session"}) =>
               /\ Has(before.items, last'.id)
               /\ before.items[last'.id].status = "backlog"
               /\ after.items[last'.id].status = "active"
          /\ (last'.res = "ok" /\ last'.op \in {"end_session", "end_queue_session"}) =>
               /\ Has(before.sessions, last'.id)
               /\ before.sessions[last'.id].end_time = {}
               /\ after.sessions[last'.id].end_time # {}
               /\ LET queue_item_id == before.sessions[last'.id].queue_item_id
                  IN Has(after.items, queue_item_id) =>
                       after.items[queue_item_id].status = "complete"
          /\ \A id \in DOMAIN before.items \cap DOMAIN after.items :
               QueueRank(after.items[id].status) >= QueueRank(before.items[id].status)
          /\ \A id \in Ids : Cardinality(ActiveSessionsOf(after, id)) <= 1]_vars

====
